---- MODULE Spec2Model ----
(***************************************************************************)
(* A model of petitcheval's curses tree view (src/petitcheval/tui.py) over *)
(* the SQLite store it reads through src/petitcheval/models.py.            *)
(*                                                                         *)
(* Strings are sequences of one-character strings.  Indices (cursor_pos,   *)
(* scroll_offset) are 0-based as in the source; TLA+ sequences are 1-based, *)
(* so rows[cursor_pos] of the source is rows[cursor_pos + 1] here.         *)
(***************************************************************************)
EXTENDS Integers, Sequences, FiniteSets, TLC

VARIABLES db, current_ws_id, collapsed, cursor_pos, scroll_offset,
          search_query, rows, h, pc, widget

vars == <<db, current_ws_id, collapsed, cursor_pos, scroll_offset,
          search_query, rows, h, pc, widget>>

\* widget holds the locals of a modal call (textbox_input, popup_select) where
\* the call is followed key by key; where a call is taken in one step, with
\* its result drawn from TextResults or PopupResults, no widget is open at a
\* read of the tree view's key
NoWidget == [kind |-> "none"]

(***************************************************************************)
(* Bounds of the model.                                                    *)
(***************************************************************************)
\* ids the tasks table hands out in one run (AUTOINCREMENT never reuses one)
MaxTaskId == 1
\* ids the steps table hands out in one run
MaxStepId == 2
\* ids the workspaces table hands out in one run
MaxWsId == 2
\* longest text the editor buffer holds
MaxLen == 1
\* editing keys pressed in one modal call before enter or escape
MaxKeys == 2
\* tallest terminal
MaxHeight == 7
\* tasks and steps of the stores build_tree is applied to on its own
MaxFlatTasks == 2
MaxFlatSteps == 2
\* longest text a handler is handed as the result of an editor call when it is
\* applied on its own
MaxTyped == 3
\* the same, where every text costs a rebuild of the tree
MaxShort == 2

\* the characters a user types: a lower-case letter, an upper-case letter, a blank
Chars == {"a", "B", " "}

\* terminal heights the loop observes: one that leaves no list line (visible =
\* h - 5 = 0) and the tallest
Heights == {5, MaxHeight}

(***************************************************************************)
(* Python string operations used by the source.                            *)
(***************************************************************************)
\* str.lower() on one character
LowerChar(c) == IF c = "B" THEN "b" ELSE IF c = "A" THEN "a" ELSE c

\* str.lower()
Lower(s) == [i \in 1..Len(s) |-> LowerChar(s[i])]

\* q in s
Contains(s, q) ==
    \E i \in 0..(Len(s) - Len(q)) : SubSeq(s, i + 1, i + Len(q)) = q

RECURSIVE LStrip(_)
LStrip(s) == IF s # <<>> /\ Head(s) = " " THEN LStrip(Tail(s)) ELSE s

RECURSIVE RStrip(_)
RStrip(s) ==
    IF s # <<>> /\ s[Len(s)] = " " THEN RStrip(SubSeq(s, 1, Len(s) - 1)) ELSE s

\* str.strip()
Strip(s) == RStrip(LStrip(s))

(***************************************************************************)
(* The store: tables workspaces, tasks, steps of db.py, and the reads of   *)
(* models.py.  db.workspaces, db.tasks and db.steps are functions from the  *)
(* ids of the rows present to the rows; *_seq is the last id handed out.    *)
(***************************************************************************)
\* CASE priority WHEN 'high' THEN 0 WHEN 'medium' THEN 1 ELSE 2 END
PriorityRank(p) == IF p = "high" THEN 0 ELSE IF p = "medium" THEN 1 ELSE 2

\* ORDER BY id
RECURSIVE SortById(_)
SortById(S) ==
    IF S = {} THEN <<>>
    ELSE LET m == CHOOSE x \in S : \A y \in S : x <= y
         IN  <<m>> \o SortById(S \ {m})

\* mutant: the steps are ordered by id alone
StepBefore_ById(steps, a, b) == a <= b

\* ORDER BY done, CASE priority ... END, id  (a before b)
StepBefore(steps, a, b) ==
    \/ steps[a].done < steps[b].done
    \/ /\ steps[a].done = steps[b].done
       /\ PriorityRank(steps[a].priority) < PriorityRank(steps[b].priority)
    \/ /\ steps[a].done = steps[b].done
       /\ PriorityRank(steps[a].priority) = PriorityRank(steps[b].priority)
       /\ a <= b

RECURSIVE SortSteps(_, _)
SortSteps(steps, S) ==
    IF S = {} THEN <<>>
    ELSE LET m == CHOOSE x \in S : \A y \in S : StepBefore(steps, x, y)
         IN  <<m>> \o SortSteps(steps, S \ {m})

\* mutant: the status filter is dropped
get_tasks_AnyStatus(d, workspace_id, status_filter) ==
    SortById({t \in DOMAIN d.tasks : d.tasks[t].workspace_id = workspace_id})

\* get_tasks(db, workspace_id, status_filter): the ids, in the order returned
get_tasks(d, workspace_id, status_filter) ==
    SortById({t \in DOMAIN d.tasks :
                 /\ d.tasks[t].workspace_id = workspace_id
                 /\ d.tasks[t].status = status_filter})

\* mutant: only the pending steps are read
get_steps_Pending(d, task_id) ==
    SortSteps(d.steps, {s \in DOMAIN d.steps :
                           d.steps[s].task_id = task_id /\ d.steps[s].done = 0})

\* mutant: the steps of every task are returned
get_steps_AnyTask(d, task_id) == SortSteps(d.steps, DOMAIN d.steps)

\* get_steps(db, task_id): the ids, in the order returned
get_steps(d, task_id) ==
    SortSteps(d.steps, {s \in DOMAIN d.steps : d.steps[s].task_id = task_id})

\* step_counts(db, task_id) = (COUNT(*), SUM(done))
step_counts(d, task_id) ==
    LET mine == {s \in DOMAIN d.steps : d.steps[s].task_id = task_id}
    IN  <<Cardinality(mine), Cardinality({s \in mine : d.steps[s].done = 1})>>

(***************************************************************************)
(* Tree model: build_tree.                                                 *)
(***************************************************************************)
\* mutant: the collapsed flag is never set
TaskRow_NeverCollapsed(d, tid, coll) ==
    [type |-> "task", id |-> tid, name |-> d.tasks[tid].name,
     total |-> step_counts(d, tid)[1], done |-> step_counts(d, tid)[2],
     collapsed |-> FALSE]

TaskRow(d, tid, coll) ==
    [type |-> "task", id |-> tid, name |-> d.tasks[tid].name,
     total |-> step_counts(d, tid)[1], done |-> step_counts(d, tid)[2],
     collapsed |-> tid \in coll]

StepRow(d, sid) ==
    [type |-> "step", id |-> sid, task_id |-> d.steps[sid].task_id,
     text |-> d.steps[sid].text, done |-> d.steps[sid].done,
     priority |-> d.steps[sid].priority]

\* mutant: no step ever matches the query
MatchingSteps_None(d, steps, query) == <<>>

\* [s for s in steps if query in s[2].lower()]
RECURSIVE MatchingSteps(_, _, _)
MatchingSteps(d, steps, query) ==
    IF steps = <<>> THEN <<>>
    ELSE (IF Contains(Lower(d.steps[Head(steps)].text), query)
          THEN <<Head(steps)>> ELSE <<>>)
         \o MatchingSteps(d, Tail(steps), query)

\* the step rows appended for the step ids in shown
StepRows(d, shown) == [i \in 1..Len(shown) |-> StepRow(d, shown[i])]

\* mutant: every step of an included task is shown
ShownSteps_All(task_matches, matching_steps, steps) == steps

\* matching_steps if not task_matches else steps
ShownSteps(task_matches, matching_steps, steps) ==
    IF ~task_matches THEN matching_steps ELSE steps

\* the rows one task contributes: one pass of the loop body of build_tree
TaskRows(d, tid, coll, query) ==
    LET steps == get_steps(d, tid)
        task_matches == Contains(Lower(d.tasks[tid].name), query)
        matching_steps == MatchingSteps(d, steps, query)
    IN  IF query # <<>>
        THEN IF ~task_matches /\ matching_steps = <<>>
             THEN <<>>
             ELSE <<TaskRow(d, tid, coll)>>
                  \o (IF tid \notin coll
                      THEN StepRows(d, ShownSteps(task_matches, matching_steps, steps))
                      ELSE <<>>)
        ELSE <<TaskRow(d, tid, coll)>>
             \o (IF tid \notin coll THEN StepRows(d, steps) ELSE <<>>)

RECURSIVE TreeOf(_, _, _, _)
TreeOf(d, tids, coll, query) ==
    IF tids = <<>> THEN <<>>
    ELSE TaskRows(d, Head(tids), coll, query)
         \o TreeOf(d, Tail(tids), coll, query)

\* build_tree(db, workspace_id, collapsed, search_query)
build_tree(d, workspace_id, coll, query) ==
    TreeOf(d, get_tasks(d, workspace_id, "active"), coll, Lower(query))

(***************************************************************************)
(* Input widgets.  A modal call is part of the handler that makes it: the  *)
(* widget reads keys in its own loop until enter or escape, so its result  *)
(* is a function of the keys pressed.                                      *)
(***************************************************************************)
Max(a, b) == IF a >= b THEN a ELSE b
Min(a, b) == IF a <= b THEN a ELSE b

\* list.pop(i), 0-based
Pop(buf, i) == SubSeq(buf, 1, i) \o SubSeq(buf, i + 2, Len(buf))

\* list.insert(i, ch), 0-based
Insert(buf, i, ch) == SubSeq(buf, 1, i) \o <<ch>> \o SubSeq(buf, i + 1, Len(buf))

\* isinstance(ch, str) and len(ch) == 1 and ch.isprintable(): the characters
\* typed, and the letter q
Printable == Chars \cup {"q"}

\* mutant: left and right move the cursor without a clamp
TextKey_NoClamp(e, ch) ==
    IF ch = "BACKSPACE"
    THEN IF e.cursor > 0
         THEN [buf |-> Pop(e.buf, e.cursor - 1), cursor |-> e.cursor - 1]
         ELSE e
    ELSE IF ch = "DC"
    THEN IF e.cursor < Len(e.buf)
         THEN [buf |-> Pop(e.buf, e.cursor), cursor |-> e.cursor]
         ELSE e
    ELSE IF ch = "LEFT"  THEN [e EXCEPT !.cursor = e.cursor - 1]
    ELSE IF ch = "RIGHT" THEN [e EXCEPT !.cursor = e.cursor + 1]
    ELSE IF ch = "HOME"  THEN [e EXCEPT !.cursor = 0]
    ELSE IF ch = "END"   THEN [e EXCEPT !.cursor = Len(e.buf)]
    ELSE IF ch \in Printable
    THEN [buf |-> Insert(e.buf, e.cursor, ch), cursor |-> e.cursor + 1]
    ELSE e

\* one pass of the loop of textbox_input for a key other than enter or escape
TextKey(e, ch) ==
    IF ch = "BACKSPACE"
    THEN IF e.cursor > 0
         THEN [buf |-> Pop(e.buf, e.cursor - 1), cursor |-> e.cursor - 1]
         ELSE e
    ELSE IF ch = "DC"
    THEN IF e.cursor < Len(e.buf)
         THEN [buf |-> Pop(e.buf, e.cursor), cursor |-> e.cursor]
         ELSE e
    ELSE IF ch = "LEFT"  THEN [e EXCEPT !.cursor = Max(0, e.cursor - 1)]
    ELSE IF ch = "RIGHT" THEN [e EXCEPT !.cursor = Min(Len(e.buf), e.cursor + 1)]
    ELSE IF ch = "HOME"  THEN [e EXCEPT !.cursor = 0]
    ELSE IF ch = "END"   THEN [e EXCEPT !.cursor = Len(e.buf)]
    ELSE IF ch \in Printable
    THEN [buf |-> Insert(e.buf, e.cursor, ch), cursor |-> e.cursor + 1]
    ELSE e

\* the keys the editor acts on, other than enter and escape
EditKeys == {"BACKSPACE", "DC", "LEFT", "RIGHT", "HOME", "END"} \cup Chars

\* the editor's state at its first read: buf = list(prefill), cursor = len(buf)
TextStart(prefill) == [buf |-> prefill, cursor |-> Len(prefill)]

\* what a modal call returns: a text, or None on escape
Committed(text) == [cancelled |-> FALSE, text |-> text]
Cancelled == [cancelled |-> TRUE, text |-> <<>>]

RECURSIVE TextLoop(_, _)
TextLoop(e, keys) ==
    IF Head(keys) = "ENTER" THEN Committed(e.buf)
    ELSE IF Head(keys) = "ESC" THEN Cancelled
    ELSE TextLoop(TextKey(e, Head(keys)), Tail(keys))

\* textbox_input(stdscr, prompt, prefill) on the keys read
textbox_input(prefill, keys) == TextLoop(TextStart(prefill), keys)

\* the buffer stays within MaxLen while the keys are read
RECURSIVE Fits(_, _)
Fits(e, keys) ==
    /\ Len(e.buf) <= MaxLen
    /\ keys # <<>> /\ Head(keys) \notin {"ENTER", "ESC"}
           => Fits(TextKey(e, Head(keys)), Tail(keys))

\* sequences of at most n keys of K
RECURSIVE SeqsUpTo(_, _)
SeqsUpTo(K, n) ==
    IF n = 0 THEN {<<>>}
    ELSE LET shorter == SeqsUpTo(K, n - 1)
         IN  shorter \cup {Append(ks, k) : ks \in shorter, k \in K}

\* the texts of at most MaxLen characters
Texts == SeqsUpTo(Chars, MaxLen)

\* the key sequences one call of the editor reads
TextKeySeqs ==
    {Append(ks, t) : ks \in SeqsUpTo(EditKeys, MaxKeys), t \in {"ENTER", "ESC"}}

\* every result textbox_input can return for a prefill
TextResults ==
    [prefill \in Texts |->
        {textbox_input(prefill, ks) :
            ks \in {k \in TextKeySeqs : Fits(TextStart(prefill), k)}}]

\* mutant: down on the last item wraps to the first
PopupKey_Wrap(p, ch, n, inner_h) ==
    IF ch = "UP"
    THEN LET sel == Max(0, p.sel - 1)
         IN  [sel |-> sel, scroll |-> IF sel < p.scroll THEN sel ELSE p.scroll]
    ELSE IF ch = "DOWN"
    THEN LET sel == (p.sel + 1) % n
         IN  [sel |-> sel,
              scroll |-> IF sel < p.scroll THEN sel
                         ELSE IF sel >= p.scroll + inner_h
                         THEN sel - inner_h + 1 ELSE p.scroll]
    ELSE p

\* one pass of the loop of popup_select for a key other than enter or escape
PopupKey(p, ch, n, inner_h) ==
    IF ch = "UP"
    THEN LET sel == Max(0, p.sel - 1)
         IN  [sel |-> sel, scroll |-> IF sel < p.scroll THEN sel ELSE p.scroll]
    ELSE IF ch = "DOWN"
    THEN LET sel == Min(n - 1, p.sel + 1)
         IN  [sel |-> sel,
              scroll |-> IF sel >= p.scroll + inner_h
                         THEN sel - inner_h + 1 ELSE p.scroll]
    ELSE p

\* inner_h = box_h - 2 with box_h = min(h - 4, len(items) + 2)
InnerHeight(hh, n) == Min(hh - 4, n + 2) - 2

RECURSIVE PopupLoop(_, _, _, _)
PopupLoop(p, keys, items, inner_h) ==
    IF Head(keys) = "ENTER" THEN [cancelled |-> FALSE, item |-> items[p.sel + 1]]
    ELSE IF Head(keys) = "ESC" THEN [cancelled |-> TRUE, item |-> <<>>]
    ELSE PopupLoop(PopupKey(p, Head(keys), Len(items), inner_h),
                   Tail(keys), items, inner_h)

\* popup_select(stdscr, title, items, label_fn) on the keys read
popup_select(items, keys, hh) ==
    PopupLoop([sel |-> 0, scroll |-> 0], keys, items, InnerHeight(hh, Len(items)))

\* the key sequences one call of the picker reads
PopupKeySeqs ==
    {Append(ks, t) : ks \in SeqsUpTo({"UP", "DOWN"}, MaxKeys), t \in {"ENTER", "ESC"}}

(***************************************************************************)
(* The SQL statements tui_main runs.                                       *)
(***************************************************************************)
\* f restricted to the keys in S
Restrict(f, S) == [x \in S |-> f[x]]

\* f with key k set to v (k need not be in DOMAIN f)
Put(f, k, v) == [x \in DOMAIN f \cup {k} |-> IF x = k THEN v ELSE f[x]]

\* INSERT INTO tasks (workspace_id, name, status, created_at) VALUES (?, ?, 'active', ?)
InsertTask(d, ws, name) ==
    [d EXCEPT !.task_seq = d.task_seq + 1,
              !.tasks = Put(d.tasks, d.task_seq + 1,
                            [workspace_id |-> ws, name |-> name, status |-> "active"])]

\* INSERT INTO steps (task_id, text, priority, created_at) VALUES (?, ?, 'medium', ?)
InsertStep(d, task_id, text) ==
    [d EXCEPT !.step_seq = d.step_seq + 1,
              !.steps = Put(d.steps, d.step_seq + 1,
                            [task_id |-> task_id, text |-> text, done |-> 0,
                             priority |-> "medium", completed_at |-> "NULL"])]

\* mutant: the timestamp is kept when the step is unchecked
SetStepDone_KeepStamp(d, sid, done) ==
    IF sid \in DOMAIN d.steps
    THEN [d EXCEPT !.steps[sid].done = done,
                   !.steps[sid].completed_at =
                       IF done = 1 THEN "now" ELSE d.steps[sid].completed_at]
    ELSE d

\* UPDATE steps SET done = ?, completed_at = ? WHERE id = ?
SetStepDone(d, sid, done) ==
    IF sid \in DOMAIN d.steps
    THEN [d EXCEPT !.steps[sid].done = done,
                   !.steps[sid].completed_at = IF done = 1 THEN "now" ELSE "NULL"]
    ELSE d

\* UPDATE tasks SET name = ? WHERE id = ?
UpdateTaskName(d, tid, name) ==
    IF tid \in DOMAIN d.tasks THEN [d EXCEPT !.tasks[tid].name = name] ELSE d

\* UPDATE steps SET text = ? WHERE id = ?
UpdateStepText(d, sid, text) ==
    IF sid \in DOMAIN d.steps THEN [d EXCEPT !.steps[sid].text = text] ELSE d

\* mutant: the delete does not cascade to the steps
DeleteTask_NoCascade(d, tid) ==
    [d EXCEPT !.tasks = Restrict(d.tasks, DOMAIN d.tasks \ {tid})]

\* DELETE FROM tasks WHERE id = ?  (steps.task_id ... ON DELETE CASCADE)
DeleteTask(d, tid) ==
    [d EXCEPT !.tasks = Restrict(d.tasks, DOMAIN d.tasks \ {tid}),
              !.steps = Restrict(d.steps,
                                 {s \in DOMAIN d.steps : d.steps[s].task_id # tid})]

\* DELETE FROM steps WHERE id = ?
DeleteStep(d, sid) ==
    [d EXCEPT !.steps = Restrict(d.steps, DOMAIN d.steps \ {sid})]

\* mutant: the cycle runs the other way
NextPriority_Down(p) ==
    LET order == <<"low", "medium", "high">>
        index == CHOOSE i \in 0..2 : order[i + 1] = p
    IN  order[((index + 2) % 3) + 1]

\* order[(order.index(priority) + 1) % 3] with order = ["low", "medium", "high"]
NextPriority(p) ==
    LET order == <<"low", "medium", "high">>
        index == CHOOSE i \in 0..2 : order[i + 1] = p
    IN  order[((index + 1) % 3) + 1]

\* UPDATE steps SET priority = ? WHERE id = ?
SetStepPriority(d, sid, priority) ==
    IF sid \in DOMAIN d.steps THEN [d EXCEPT !.steps[sid].priority = priority] ELSE d

\* mutant: the name is never found
WorkspaceExists_Never(d, name) == FALSE

\* SELECT 1 FROM workspaces WHERE name = ?
WorkspaceExists(d, name) ==
    \E w \in DOMAIN d.workspaces : d.workspaces[w].name = name

\* INSERT INTO workspaces (name, created_at) VALUES (?, ?)
InsertWorkspace(d, name) ==
    [d EXCEPT !.ws_seq = d.ws_seq + 1,
              !.workspaces = Put(d.workspaces, d.ws_seq + 1, [name |-> name])]

\* the name 'default' of the workspace get_db creates in an empty database
DefaultName == <<"d">>

\* the database get_db returns when no file exists yet
FreshDb ==
    [workspaces |-> (1 :> [name |-> DefaultName]), ws_seq |-> 1,
     tasks |-> <<>>, task_seq |-> 0,
     steps |-> <<>>, step_seq |-> 0]

(***************************************************************************)
(* Main loop: tui_main.  A state is the loop at its blocking read of the   *)
(* next key: the tree was rebuilt, cursor_pos and scroll_offset were       *)
(* reconciled, the screen was drawn and status_msg was cleared.  A handler *)
(* is a function from the locals of tui_main (a record, with the message   *)
(* it leaves for the next draw in status_msg) and the results of the modal *)
(* calls it makes; an action is the handler followed by the top of the     *)
(* next iteration.                                                         *)
(***************************************************************************)
\* visible = h - 5
Visible(hh) == hh - 5

\* mutant: the cursor is not clamped to the last row
Reconcile_NoClamp(rws, cursor, scroll, visible) ==
    IF rws # <<>>
    THEN LET s1 == IF cursor < scroll THEN cursor ELSE scroll
             s2 == IF cursor >= s1 + visible THEN cursor - visible + 1 ELSE s1
         IN  <<cursor, s2>>
    ELSE <<0, 0>>

\* mutant: the scroll does not follow the cursor below the window
Reconcile_NoFollow(rws, cursor, scroll, visible) ==
    IF rws # <<>>
    THEN LET c == Max(0, Min(cursor, Len(rws) - 1))
         IN  <<c, IF c < scroll THEN c ELSE scroll>>
    ELSE <<0, 0>>

\* mutant: the window always starts at the cursor
Reconcile_ScrollToCursor(rws, cursor, scroll, visible) ==
    IF rws # <<>>
    THEN <<Max(0, Min(cursor, Len(rws) - 1)), Max(0, Min(cursor, Len(rws) - 1))>>
    ELSE <<0, 0>>

\* the clamp of cursor_pos and scroll_offset at the top of the loop
Reconcile(rws, cursor, scroll, visible) ==
    IF rws # <<>>
    THEN LET c  == Max(0, Min(cursor, Len(rws) - 1))
             s1 == IF c < scroll THEN c ELSE scroll
             s2 == IF c >= s1 + visible THEN c - visible + 1 ELSE s1
         IN  <<c, s2>>
    ELSE <<0, 0>>

\* the locals of tui_main at the read of a key
Locals ==
    [db |-> db, current_ws_id |-> current_ws_id, collapsed |-> collapsed,
     search_query |-> search_query, cursor_pos |-> cursor_pos,
     scroll_offset |-> scroll_offset, rows |-> rows, status_msg |-> ""]

\* the top of the loop as a function: rebuild the rows, reconcile, draw, clear
Reconciled(s, rws, hh) ==
    [s EXCEPT !.rows = rws,
              !.cursor_pos = Reconcile(rws, s.cursor_pos, s.scroll_offset, Visible(hh))[1],
              !.scroll_offset = Reconcile(rws, s.cursor_pos, s.scroll_offset, Visible(hh))[2],
              !.status_msg = ""]

loop_top(s, hh) ==
    Reconciled(s, build_tree(s.db, s.current_ws_id, s.collapsed, s.search_query), hh)

\* the state at the next read of a key
Becomes(n, hh) ==
    /\ db' = n.db
    /\ current_ws_id' = n.current_ws_id
    /\ collapsed' = n.collapsed
    /\ search_query' = n.search_query
    /\ rows' = n.rows
    /\ cursor_pos' = n.cursor_pos
    /\ scroll_offset' = n.scroll_offset
    /\ h' = hh
    /\ pc' = pc
    /\ widget' = widget

\* the top of the loop, entered with the locals s a handler left
LoopTop(s, hh) == Becomes(loop_top(s, hh), hh)

\* SELECT id, name FROM workspaces ORDER BY id LIMIT 1
FirstWorkspace(d) ==
    CHOOSE w \in DOMAIN d.workspaces : \A v \in DOMAIN d.workspaces : w <= v

\* the locals tui_main starts the loop with
Start(d) ==
    [db |-> d, current_ws_id |-> FirstWorkspace(d), collapsed |-> {},
     search_query |-> <<>>, cursor_pos |-> 0, scroll_offset |-> 0,
     rows |-> <<>>, status_msg |-> ""]

InitFrom(d, hh) ==
    /\ db = loop_top(Start(d), hh).db
    /\ current_ws_id = loop_top(Start(d), hh).current_ws_id
    /\ collapsed = loop_top(Start(d), hh).collapsed
    /\ search_query = loop_top(Start(d), hh).search_query
    /\ rows = loop_top(Start(d), hh).rows
    /\ cursor_pos = loop_top(Start(d), hh).cursor_pos
    /\ scroll_offset = loop_top(Start(d), hh).scroll_offset
    /\ h = hh
    /\ pc = "run"
    /\ widget = NoWidget

Init == \E hh \in Heights : InitFrom(FreshDb, hh)

\* k, KEY_UP
key_up(s) == [s EXCEPT !.cursor_pos = Max(0, s.cursor_pos - 1)]

\* mutant: down at the last row wraps to the first
key_down_Wrap(s) ==
    IF s.rows # <<>>
    THEN [s EXCEPT !.cursor_pos = (s.cursor_pos + 1) % Len(s.rows)]
    ELSE s

\* j, KEY_DOWN
key_down(s) ==
    IF s.rows # <<>>
    THEN [s EXCEPT !.cursor_pos = Min(Len(s.rows) - 1, s.cursor_pos + 1)]
    ELSE s

\* g
key_top(s) == [s EXCEPT !.cursor_pos = 0]

\* G
key_bottom(s) ==
    IF s.rows # <<>> THEN [s EXCEPT !.cursor_pos = Len(s.rows) - 1] ELSE s

\* rows[cursor_pos]
Selected(s) == s.rows[s.cursor_pos + 1]

\* mutant: enter on a collapsed task leaves it collapsed
toggle_collapsed_AddOnly(coll, tid) == coll \cup {tid}

\* the collapse toggle of enter on a task row
toggle_collapsed(coll, tid) == IF tid \in coll THEN coll \ {tid} ELSE coll \cup {tid}

\* enter, space: toggle collapse on a task, toggle done on a step
activate(s) ==
    IF s.rows # <<>>
    THEN LET r == Selected(s)
         IN  IF r.type = "task"
             THEN [s EXCEPT !.collapsed = toggle_collapsed(s.collapsed, r.id)]
             ELSE [s EXCEPT !.db = SetStepDone(s.db, r.id, IF r.done = 1 THEN 0 ELSE 1),
                            !.status_msg = IF r.done = 1 THEN "Unchecked" ELSE "Completed"]
    ELSE s

\* mutant: if text
NonBlank_NoStrip(res) == ~res.cancelled /\ res.text # <<>>

\* if text and text.strip()
NonBlank(res) == ~res.cancelled /\ res.text # <<>> /\ Strip(res.text) # <<>>

\* A: new task; name is what textbox_input returned
new_task(s, name) ==
    IF NonBlank(name)
    THEN [s EXCEPT !.db = InsertTask(s.db, s.current_ws_id, Strip(name.text)),
                   !.status_msg = "Created task"]
    ELSE s

\* the task a new step goes under
OwningTask(r) == IF r.type = "task" THEN r.id ELSE r.task_id

\* mutant: the owning task stays collapsed
new_step_KeepCollapsed(s, text) ==
    IF s.rows # <<>>
    THEN IF NonBlank(text)
         THEN [s EXCEPT !.db = InsertStep(s.db, OwningTask(Selected(s)), Strip(text.text)),
                        !.status_msg = "Added"]
         ELSE s
    ELSE [s EXCEPT !.status_msg = "Create a task first (A)"]

\* a: new step under the task of the selection
new_step(s, text) ==
    IF s.rows # <<>>
    THEN IF NonBlank(text)
         THEN [s EXCEPT !.db = InsertStep(s.db, OwningTask(Selected(s)), Strip(text.text)),
                        !.collapsed = s.collapsed \ {OwningTask(Selected(s))},
                        !.status_msg = "Added"]
         ELSE s
    ELSE [s EXCEPT !.status_msg = "Create a task first (A)"]

\* e: edit the name or text of the selection
edit(s, new_text) ==
    IF s.rows # <<>> /\ NonBlank(new_text)
    THEN LET r == Selected(s)
         IN  IF r.type = "task"
             THEN [s EXCEPT !.db = UpdateTaskName(s.db, r.id, Strip(new_text.text)),
                            !.status_msg = "Updated task"]
             ELSE [s EXCEPT !.db = UpdateStepText(s.db, r.id, Strip(new_text.text)),
                            !.status_msg = "Updated step"]
    ELSE s

\* mutant: the id of a deleted task stays in the collapse set
delete_KeepCollapsed(s) ==
    IF s.rows # <<>>
    THEN LET r == Selected(s)
         IN  IF r.type = "task"
             THEN [s EXCEPT !.db = DeleteTask(s.db, r.id),
                            !.status_msg = "Deleted task"]
             ELSE [s EXCEPT !.db = DeleteStep(s.db, r.id),
                            !.status_msg = "Deleted"]
    ELSE s

\* d, KEY_DC: delete the selection
delete(s) ==
    IF s.rows # <<>>
    THEN LET r == Selected(s)
         IN  IF r.type = "task"
             THEN [s EXCEPT !.db = DeleteTask(s.db, r.id),
                            !.collapsed = s.collapsed \ {r.id},
                            !.status_msg = "Deleted task"]
             ELSE [s EXCEPT !.db = DeleteStep(s.db, r.id),
                            !.status_msg = "Deleted"]
    ELSE s

\* p: cycle the priority of a step
cycle_priority(s) ==
    IF s.rows # <<>> /\ Selected(s).type = "step"
    THEN [s EXCEPT !.db = SetStepPriority(s.db, Selected(s).id,
                                          NextPriority(Selected(s).priority))]
    ELSE s

\* the prefill of the editor the search opens: textbox_input is called with
\* the prompt alone, so prefill is its default ""
search_prefill(s) == <<>>

\* mutant: escape leaves the query as it was
search_KeepOnCancel(s, query) ==
    [s EXCEPT !.search_query = IF query.cancelled THEN s.search_query
                               ELSE Strip(query.text),
              !.cursor_pos = 0,
              !.scroll_offset = 0]

\* mutant: the committed text is taken as typed
search_NoStrip(s, query) ==
    [s EXCEPT !.search_query = IF query.cancelled THEN <<>> ELSE query.text,
              !.cursor_pos = 0,
              !.scroll_offset = 0]

\* f: search
search(s, query) ==
    [s EXCEPT !.search_query = IF query.cancelled THEN <<>> ELSE Strip(query.text),
              !.cursor_pos = 0,
              !.scroll_offset = 0]

\* mutant: entering a workspace clears the query
switch_to_ClearQuery(s, ws, msg) ==
    [s EXCEPT !.current_ws_id = ws, !.collapsed = {}, !.cursor_pos = 0,
              !.scroll_offset = 0, !.search_query = <<>>, !.status_msg = msg]

\* workspaces + [(-1, "+ New workspace")]
Options(d) ==
    [i \in 1..Cardinality(DOMAIN d.workspaces) |->
        <<SortById(DOMAIN d.workspaces)[i],
          d.workspaces[SortById(DOMAIN d.workspaces)[i]].name>>]
    \o << <<-1, <<"+">>>> >>

\* mutant: the collapse set survives the switch
switch_to_KeepCollapsed(s, ws, msg) ==
    [s EXCEPT !.current_ws_id = ws, !.cursor_pos = 0,
              !.scroll_offset = 0, !.status_msg = msg]

\* the switch to workspace ws
switch_to(s, ws, msg) ==
    [s EXCEPT !.current_ws_id = ws, !.collapsed = {}, !.cursor_pos = 0,
              !.scroll_offset = 0, !.status_msg = msg]

\* mutant: escape in the picker resets the view as a switch does
switch_workspace_ResetOnCancel(s, picked, name) ==
    IF picked.cancelled THEN switch_to(s, s.current_ws_id, "")
    ELSE IF picked.item[1] = -1
    THEN IF NonBlank(name)
         THEN IF WorkspaceExists(s.db, Strip(name.text))
              THEN [s EXCEPT !.status_msg = "Workspace already exists"]
              ELSE switch_to([s EXCEPT !.db = InsertWorkspace(s.db, Strip(name.text))],
                             s.db.ws_seq + 1, "Created workspace")
         ELSE s
    ELSE switch_to(s, picked.item[1], "Switched to")

\* w: workspace switcher; picked is what popup_select returned, name what the
\* textbox_input for the new workspace's name returned
switch_workspace(s, picked, name) ==
    IF picked.cancelled THEN s
    ELSE IF picked.item[1] = -1
    THEN IF NonBlank(name)
         THEN IF WorkspaceExists(s.db, Strip(name.text))
              THEN [s EXCEPT !.status_msg = "Workspace already exists"]
              ELSE switch_to([s EXCEPT !.db = InsertWorkspace(s.db, Strip(name.text))],
                             s.db.ws_seq + 1, "Created workspace")
         ELSE s
    ELSE switch_to(s, picked.item[1], "Switched to")

\* every result popup_select can return for the items at a terminal height
PopupResults(items, hh) == {popup_select(items, ks, hh) : ks \in PopupKeySeqs}

\* q, Q
Quit ==
    /\ pc = "run"
    /\ pc' = "quit"
    /\ UNCHANGED <<db, current_ws_id, collapsed, cursor_pos, scroll_offset,
                   search_query, rows, h, widget>>

\* the if/elif chain on a key none of its branches names (s, n, D,
\* KEY_RESIZE): no branch runs and the locals keep their values
unbound_key(s) == s

\* a key no branch handles, KEY_RESIZE among them: the loop re-reads the size
OtherKey ==
    /\ pc = "run"
    /\ \E hh \in Heights : LoopTop(unbound_key(Locals), hh)

KeyUp == pc = "run" /\ LoopTop(key_up(Locals), h)

KeyDown == pc = "run" /\ LoopTop(key_down(Locals), h)

KeyTop == pc = "run" /\ LoopTop(key_top(Locals), h)

KeyBottom == pc = "run" /\ LoopTop(key_bottom(Locals), h)

Activate == pc = "run" /\ LoopTop(activate(Locals), h)

\* The modal calls read keys themselves, so the terminal may be resized while
\* one is open; the loop then sees the new height at its top.
NewTask ==
    /\ pc = "run"
    /\ \E name \in TextResults[<<>>], hh \in Heights :
          /\ NonBlank(name) => db.task_seq < MaxTaskId
          /\ LoopTop(new_task(Locals, name), hh)

NewStep ==
    /\ pc = "run"
    /\ IF rows # <<>>
       THEN \E text \in TextResults[<<>>], hh \in Heights :
               /\ NonBlank(text) => db.step_seq < MaxStepId
               /\ LoopTop(new_step(Locals, text), hh)
       ELSE LoopTop(new_step(Locals, Cancelled), h)

\* the prefill of the edit: the name of a task, the text of a step
EditPrefill(r) == IF r.type = "task" THEN r.name ELSE r.text

Edit ==
    /\ pc = "run"
    /\ IF rows # <<>>
       THEN \E new_text \in TextResults[EditPrefill(Selected(Locals))], hh \in Heights :
               LoopTop(edit(Locals, new_text), hh)
       ELSE LoopTop(edit(Locals, Cancelled), h)

Delete == pc = "run" /\ LoopTop(delete(Locals), h)

CyclePriority == pc = "run" /\ LoopTop(cycle_priority(Locals), h)

Search ==
    /\ pc = "run"
    /\ \E query \in TextResults[search_prefill(Locals)], hh \in Heights :
          LoopTop(search(Locals, query), hh)

\* the editor opens only for the "+ New workspace" entry
NameResults(picked) ==
    IF ~picked.cancelled /\ picked.item[1] = -1 THEN TextResults[<<>>] ELSE {Cancelled}

SwitchWorkspace ==
    /\ pc = "run"
    /\ \E picked \in PopupResults(Options(db), h), hh \in Heights :
          \E name \in NameResults(picked) :
             /\ (~picked.cancelled /\ picked.item[1] = -1 /\ NonBlank(name)
                   /\ ~WorkspaceExists(db, Strip(name.text))) => db.ws_seq < MaxWsId
             /\ LoopTop(switch_workspace(Locals, picked, name), hh)

Next ==
    \/ Quit
    \/ OtherKey
    \/ KeyUp
    \/ KeyDown
    \/ KeyTop
    \/ KeyBottom
    \/ Activate
    \/ NewTask
    \/ NewStep
    \/ Edit
    \/ Delete
    \/ CyclePriority
    \/ Search
    \/ SwitchWorkspace

Spec == Init /\ [][Next]_vars

(***************************************************************************)
(* The loop with a store that can report a failure.  Every db.execute can  *)
(* raise sqlite3.Error (the database is locked by a run of the command     *)
(* line, or the statement names the column note, which the steps table of  *)
(* get_db lacks).  Every key but q reaches one, at the latest get_tasks in *)
(* build_tree at the top of the next iteration; the only try of tui_main   *)
(* encloses get_wch alone, so the exception leaves tui_main.               *)
(***************************************************************************)
StoreRaises ==
    /\ pc = "run"
    /\ pc' = "raised"
    /\ UNCHANGED <<db, current_ws_id, collapsed, cursor_pos, scroll_offset,
                   search_query, rows, h, widget>>

NextStore == Next \/ StoreRaises

SpecStore == Init /\ [][NextStore]_vars

(***************************************************************************)
(* build_tree on its own, applied to the stores the command line can have  *)
(* left behind (cli.py: task add/start/done, step add -p, step done):      *)
(* tasks of any status in either of two workspaces, steps of any priority  *)
(* and done flag.                                                          *)
(***************************************************************************)
Statuses == {"active", "in_progress", "done"}
Priorities == {"high", "medium", "low"}
FlatNames == {<<"a">>, <<"a", "B">>}
FlatQueries == {<<>>, <<"b">>, <<"A">>}

FlatTask == [workspace_id : {1, 2}, name : FlatNames, status : Statuses]

FlatStepOf(task_id, text, done, priority) ==
    [task_id |-> task_id, text |-> text, done |-> done, priority |-> priority,
     completed_at |-> IF done = 1 THEN "now" ELSE "NULL"]

FlatStep ==
    {FlatStepOf(t, x, dn, p) :
        t \in 1..MaxFlatTasks, x \in FlatNames, dn \in {0, 1}, p \in Priorities}

FlatDb(ts, ss) ==
    [workspaces |-> (1 :> [name |-> DefaultName] @@ 2 :> [name |-> <<"a">>]),
     ws_seq |-> 2,
     tasks |-> ts, task_seq |-> MaxFlatTasks,
     steps |-> ss, step_seq |-> MaxFlatSteps]

\* the tasks the tree of workspace ws can show, hence collapse
Collapsible(d, ws) ==
    {t \in DOMAIN d.tasks : d.tasks[t].workspace_id = ws /\ d.tasks[t].status = "active"}

InitFlatten ==
    /\ db \in {FlatDb(ts, ss) : ts \in [1..MaxFlatTasks -> FlatTask],
                                ss \in [1..MaxFlatSteps -> FlatStep]}
    /\ current_ws_id = 1
    /\ collapsed \in SUBSET Collapsible(db, current_ws_id)
    /\ search_query \in FlatQueries
    /\ rows = <<>>
    /\ cursor_pos = 0
    /\ scroll_offset = 0
    /\ h = MaxHeight
    /\ pc = "call"
    /\ widget = NoWidget

\* rows = build_tree(db, current_ws_id, collapsed, search_query)
Flatten ==
    /\ pc = "call"
    /\ rows' = build_tree(db, current_ws_id, collapsed, search_query)
    /\ pc' = "return"
    /\ UNCHANGED <<db, current_ws_id, collapsed, cursor_pos, scroll_offset,
                   search_query, h, widget>>

SpecFlatten == InitFlatten /\ [][Flatten]_vars

(***************************************************************************)
(* The modal widgets followed key by key.  A handler of the tree view      *)
(* calls textbox_input or popup_select; the call blocks in its own loop,   *)
(* one get_wch per pass, until enter or escape returns to the handler.     *)
(* pc = "modal" inside the loop of the widget, "return" back in the        *)
(* handler with the result.                                                *)
(***************************************************************************)
MaxBuf == 3
MaxTermHeight == 9

PopupHeights == 5..MaxTermHeight

\* a store the command line left: two active tasks, the first with two steps
ModalDb ==
    FlatDb([t \in 1..MaxFlatTasks |->
               [workspace_id |-> 1, name |-> <<"a">>, status |-> "active"]],
           [x \in 1..MaxFlatSteps |-> FlatStepOf(1, <<"B">>, 0, "medium")])

ModalDbs == {FreshDb, ModalDb}

InitModal == \E d \in ModalDbs, hh \in Heights : InitFrom(d, hh)

\* the keys a widget can read: those of the editor, the arrows, q, enter, escape
ModalKeys == EditKeys \cup {"q", "UP", "DOWN", "ENTER", "ESC"}

\* the prefills of the calls of textbox_input: "" for A, a, f and the name of a
\* new workspace, the selected row's name or text for e
Prefills ==
    {<<>>} \cup (IF rows # <<>> THEN {EditPrefill(Selected(Locals))} ELSE {})

\* mutant: q leaves the editor as escape does
TextStep_QuitOnQ(w, ch) ==
    IF ch = "ENTER"
    THEN [kind |-> "returned", key |-> ch, result |-> Committed(w.buf)]
    ELSE IF ch \in {"ESC", "q"}
    THEN [kind |-> "returned", key |-> ch, result |-> Cancelled]
    ELSE LET e == TextKey([buf |-> w.buf, cursor |-> w.cursor], ch)
         IN  [kind |-> "text", buf |-> e.buf, cursor |-> e.cursor, key |-> ch]

\* one pass of the loop of textbox_input on the key ch
TextStep(w, ch) ==
    IF ch = "ENTER"
    THEN [kind |-> "returned", key |-> ch, result |-> Committed(w.buf)]
    ELSE IF ch = "ESC"
    THEN [kind |-> "returned", key |-> ch, result |-> Cancelled]
    ELSE LET e == TextKey([buf |-> w.buf, cursor |-> w.cursor], ch)
         IN  [kind |-> "text", buf |-> e.buf, cursor |-> e.cursor, key |-> ch]

\* one pass of the loop of popup_select on the key ch
PopupStep(w, ch) ==
    IF ch = "ESC"
    THEN [kind |-> "returned", key |-> ch,
          result |-> [cancelled |-> TRUE, item |-> <<>>]]
    ELSE IF ch = "ENTER"
    THEN [kind |-> "returned", key |-> ch,
          result |-> [cancelled |-> FALSE, item |-> w.items[w.sel + 1]]]
    ELSE LET p == PopupKey([sel |-> w.sel, scroll |-> w.scroll], ch,
                           Len(w.items), w.inner_h)
         IN  [w EXCEPT !.sel = p.sel, !.scroll = p.scroll, !.key = ch]

\* A, a, e, f, or "+ New workspace": the handler calls textbox_input
OpenEditor ==
    /\ pc = "run"
    /\ \E prefill \in Prefills :
           widget' = [kind |-> "text", buf |-> TextStart(prefill).buf,
                      cursor |-> TextStart(prefill).cursor, key |-> "none"]
    /\ pc' = "modal"
    /\ UNCHANGED <<db, current_ws_id, collapsed, cursor_pos, scroll_offset,
                   search_query, rows, h>>

\* w: the handler calls popup_select, which reads the size of the terminal
OpenPicker ==
    /\ pc = "run"
    /\ \E hh \in PopupHeights :
           widget' = [kind |-> "popup", items |-> Options(db),
                      inner_h |-> InnerHeight(hh, Len(Options(db))),
                      sel |-> 0, scroll |-> 0, key |-> "none"]
    /\ pc' = "modal"
    /\ UNCHANGED <<db, current_ws_id, collapsed, cursor_pos, scroll_offset,
                   search_query, rows, h>>

\* the editor reads a key
EditorKey ==
    /\ pc = "modal"
    /\ widget.kind = "text"
    /\ \E ch \in ModalKeys :
           /\ ch \in Printable => Len(widget.buf) < MaxBuf
           /\ widget' = TextStep(widget, ch)
    /\ pc' = IF widget'.kind = "returned" THEN "return" ELSE "modal"
    /\ UNCHANGED <<db, current_ws_id, collapsed, cursor_pos, scroll_offset,
                   search_query, rows, h>>

\* the picker reads a key
PickerKey ==
    /\ pc = "modal"
    /\ widget.kind = "popup"
    /\ \E ch \in ModalKeys : widget' = PopupStep(widget, ch)
    /\ pc' = IF widget'.kind = "returned" THEN "return" ELSE "modal"
    /\ UNCHANGED <<db, current_ws_id, collapsed, cursor_pos, scroll_offset,
                   search_query, rows, h>>

NextModal == OpenEditor \/ OpenPicker \/ EditorKey \/ PickerKey

SpecModal == InitModal /\ [][NextModal]_vars

(***************************************************************************)
(* The reconciliation at the top of the loop on its own, applied to every  *)
(* row list of at most MaxRows rows, every cursor and scroll offset the    *)
(* handlers can leave (a cursor past the end after a delete or a search, a *)
(* scroll offset past the cursor after a jump to the top) and every        *)
(* terminal height.                                                        *)
(***************************************************************************)
MaxRows == 4

\* a store of n active tasks without steps in the default workspace
TasksDb(n) ==
    [workspaces |-> FreshDb.workspaces, ws_seq |-> FreshDb.ws_seq,
     tasks |-> [t \in 1..n |->
                   [workspace_id |-> 1, name |-> <<"a">>, status |-> "active"]],
     task_seq |-> n,
     steps |-> <<>>, step_seq |-> 0]

InitReconcile ==
    /\ db \in {TasksDb(n) : n \in 0..MaxRows}
    /\ current_ws_id = 1
    /\ collapsed = {}
    /\ search_query = <<>>
    /\ rows = build_tree(db, current_ws_id, collapsed, search_query)
    /\ cursor_pos \in 0..(MaxRows + 1)
    /\ scroll_offset \in 0..(MaxRows + 1)
    /\ h \in PopupHeights
    /\ pc = "call"
    /\ widget = NoWidget

\* the if/else on rows at the top of the loop
ReconcileStep ==
    /\ pc = "call"
    /\ cursor_pos' = Reconcile(rows, cursor_pos, scroll_offset, Visible(h))[1]
    /\ scroll_offset' = Reconcile(rows, cursor_pos, scroll_offset, Visible(h))[2]
    /\ pc' = "return"
    /\ UNCHANGED <<db, current_ws_id, collapsed, search_query, rows, h, widget>>

SpecReconcile == InitReconcile /\ [][ReconcileStep]_vars

(***************************************************************************)
(* Properties.                                                             *)
(***************************************************************************)
RowIdx == 1..Len(rows)
IsTaskRow(i) == rows[i].type = "task"
IsStepRow(i) == rows[i].type = "step"

\* the steps the store holds for task t
StepsOf(t) == {s \in DOMAIN db.steps : db.steps[s].task_id = t}

\* the ids of the step rows shown for task t
ShownStepIds(t) == {rows[i].id : i \in {j \in RowIdx : IsStepRow(j) /\ rows[j].task_id = t}}

\* the ids of the task rows
ShownTaskIds == {rows[i].id : i \in {j \in RowIdx : IsTaskRow(j)}}

\* letters compared without regard to case
FoldCase(c) ==
    CASE c \in {"a", "A"} -> "a"
      [] c \in {"b", "B"} -> "b"
      [] OTHER -> c

\* q occurs in x, case ignored
OccursIn(q, x) ==
    \E off \in 0..(Len(x) - Len(q)) :
       \A k \in 1..Len(q) : FoldCase(x[off + k]) = FoldCase(q[k])

\* C1: whenever the row list is non-empty, at every read of a key (the render
\* and the point where a handler indexes rows with the cursor),
\* 0 <= cursor_pos <= len(rows) - 1.
C1_CursorInRange ==
    rows # <<>> => (0 <= cursor_pos /\ cursor_pos <= Len(rows) - 1)

\* a step was deleted and the cursor sits on the row that is now the last
C1_Witness ==
    /\ pc = "run"
    /\ Len(rows) = 2
    /\ cursor_pos = 1
    /\ db.step_seq = 2
    /\ Cardinality(DOMAIN db.steps) = 1

\* C2 as stated: after the reconciliation, for every terminal height,
\* scroll <= cursor <= scroll + visible - 1 whenever the row list is non-empty.
C2_Original ==
    rows # <<>> =>
        (scroll_offset <= cursor_pos /\ cursor_pos <= scroll_offset + Visible(h) - 1)

\* C2 amended: after the reconciliation, for every terminal height that leaves
\* at least one list line visible (visible >= 1), scroll <= cursor <=
\* scroll + visible - 1 whenever the row list is non-empty.
C2_CursorInWindow ==
    (rows # <<>> /\ Visible(h) >= 1) =>
        (scroll_offset <= cursor_pos /\ cursor_pos <= scroll_offset + Visible(h) - 1)

\* the window has scrolled down after the cursor
C2_Witness ==
    /\ pc = "run"
    /\ rows # <<>>
    /\ Visible(h) >= 1
    /\ scroll_offset > 0
    /\ cursor_pos = scroll_offset + Visible(h) - 1

\* what every navigation key leaves as it is (implied by each of KeyUp,
\* KeyDown, KeyTop and KeyBottom)
KeptByNavigation == UNCHANGED <<db, current_ws_id, collapsed, search_query, h, pc>>

\* C3: on a non-empty row list, up and down move the cursor by exactly one,
\* except that up at row 0 and down at the last row leave it where it is;
\* g sets it to 0 and G to len(rows) - 1.
C3_Navigation ==
    [][rows # <<>> =>
          /\ \/ cursor_pos' = (IF cursor_pos = 0 THEN 0 ELSE cursor_pos - 1)
             \/ ~KeptByNavigation
             \/ ~KeyUp
          /\ \/ cursor_pos' = (IF cursor_pos = Len(rows) - 1
                                THEN cursor_pos ELSE cursor_pos + 1)
             \/ ~KeptByNavigation
             \/ ~KeyDown
          /\ \/ cursor_pos' = 0
             \/ ~KeptByNavigation
             \/ ~KeyTop
          /\ \/ cursor_pos' = Len(rows) - 1
             \/ ~KeptByNavigation
             \/ ~KeyBottom]_vars

\* the cursor was moved to the last of three rows of an expanded task
C3_Witness ==
    /\ pc = "run"
    /\ Len(rows) = 3
    /\ cursor_pos = 2
    /\ collapsed = {}
    /\ search_query = <<>>

C5_StepsShown ==
    (pc = "return" /\ search_query # <<>>) =>
        \A t \in ShownTaskIds \ collapsed :
           ShownStepIds(t) =
              IF OccursIn(search_query, db.tasks[t].name)
              THEN StepsOf(t)
              ELSE {s \in StepsOf(t) : OccursIn(search_query, db.steps[s].text)}

\* a task whose name does not match shows one of its two steps
C5_Witness ==
    /\ pc = "return"
    /\ search_query # <<>>
    /\ \E t \in ShownTaskIds \ collapsed :
          /\ ~OccursIn(search_query, db.tasks[t].name)
          /\ Cardinality(StepsOf(t)) = 2
          /\ Cardinality(ShownStepIds(t)) = 1

\* C6: for every query, no step row belongs to a task of the collapse set, and
\* a task row has its collapsed flag set exactly when its task is in the set.
C6_CollapseHonoured ==
    pc = "return" =>
        \A i \in RowIdx :
           /\ IsStepRow(i) => rows[i].task_id \notin collapsed
           /\ IsTaskRow(i) => (rows[i].collapsed <=> rows[i].id \in collapsed)

\* under a query its steps match, a collapsed task shows its row alone
C6_Witness ==
    /\ pc = "return"
    /\ search_query # <<>>
    /\ \E i \in RowIdx :
          /\ IsTaskRow(i)
          /\ rows[i].collapsed
          /\ \E s \in StepsOf(rows[i].id) : OccursIn(search_query, db.steps[s].text)
    /\ \E i \in RowIdx : IsStepRow(i)

\* C7: with an empty query, a task row of a task that is not collapsed is
\* followed at once by one step row for each step the store holds for the
\* task, all of them and none of another task, before the next task row.
C7_StepsFollowTask ==
    (pc = "return" /\ search_query = <<>>) =>
        \A i \in RowIdx :
           (IsTaskRow(i) /\ rows[i].id \notin collapsed) =>
              LET n == Cardinality(StepsOf(rows[i].id))
              IN  /\ i + n <= Len(rows)
                  /\ \A k \in 1..n :
                        IsStepRow(i + k) /\ rows[i + k].task_id = rows[i].id
                  /\ {rows[i + k].id : k \in 1..n} = StepsOf(rows[i].id)
                  /\ i + n < Len(rows) => IsTaskRow(i + n + 1)

\* a task with two steps, one of them done, is followed by the next task
C7_Witness ==
    /\ pc = "return"
    /\ search_query = <<>>
    /\ Len(rows) = 4
    /\ IsTaskRow(1) /\ IsStepRow(2) /\ IsStepRow(3) /\ IsTaskRow(4)
    /\ rows[2].done # rows[3].done

\* C8 as stated: the step rows of a task are in ascending step id.
C8_Original ==
    pc = "return" =>
        \A i, j \in RowIdx :
           (i < j /\ IsStepRow(i) /\ IsStepRow(j) /\ rows[i].task_id = rows[j].task_id)
              => rows[i].id < rows[j].id

\* high before medium before low
PriorityOrder(p) == CASE p = "high" -> 1 [] p = "medium" -> 2 [] p = "low" -> 3

\* C8 amended: task rows are in ascending task id; the step rows of a task are
\* ordered by done flag (pending first), then by priority (high, medium, low),
\* then by ascending step id, so that changing a step's done flag or priority
\* can move its row.
C8_RowOrder ==
    pc = "return" =>
        \A i, j \in RowIdx :
           /\ (i < j /\ IsTaskRow(i) /\ IsTaskRow(j)) => rows[i].id < rows[j].id
           /\ (i < j /\ IsStepRow(i) /\ IsStepRow(j) /\ rows[i].task_id = rows[j].task_id)
                 => \/ rows[i].done < rows[j].done
                    \/ /\ rows[i].done = rows[j].done
                       /\ PriorityOrder(rows[i].priority) < PriorityOrder(rows[j].priority)
                    \/ /\ rows[i].done = rows[j].done
                       /\ rows[i].priority = rows[j].priority
                       /\ rows[i].id < rows[j].id

\* the step created later is shown first
C8_Witness ==
    /\ pc = "return"
    /\ \E i \in RowIdx :
          /\ i < Len(rows)
          /\ IsStepRow(i) /\ IsStepRow(i + 1)
          /\ rows[i].task_id = rows[i + 1].task_id
          /\ rows[i].id > rows[i + 1].id

AfterActivate(s) == loop_top(activate(s), h)

\* C10: with the cursor on a task row, pressing enter twice gives back the row
\* list, the collapse set and the cursor of before the first press.
C10_ToggleRoundTrip ==
    (pc = "run" /\ rows # <<>> /\ Selected(Locals).type = "task") =>
        LET twice == AfterActivate(AfterActivate(Locals))
        IN  /\ twice.rows = rows
            /\ twice.collapsed = collapsed
            /\ twice.cursor_pos = cursor_pos

\* enter was pressed on a task with steps: it is collapsed, under a query
C10_Witness ==
    /\ pc = "run"
    /\ rows # <<>>
    /\ Selected(Locals).type = "task"
    /\ Selected(Locals).collapsed
    /\ Selected(Locals).total = 2
    /\ search_query # <<>>

\* the texts of at most MaxTyped characters an editor call can return
Typed == SeqsUpTo(Chars, MaxTyped)

\* those of at most MaxShort characters
Short == SeqsUpTo(Chars, MaxShort)

\* x without its leading and trailing blanks: empty if x is all blanks, else
\* the part from its first to its last character that is not a blank
Trimmed(x) ==
    LET solid == {i \in 1..Len(x) : x[i] # " "}
    IN  IF solid = {} THEN <<>>
        ELSE SubSeq(x, CHOOSE i \in solid : \A j \in solid : i <= j,
                       CHOOSE i \in solid : \A j \in solid : i >= j)

\* the locals after f is pressed and the editor returns res
AfterSearch(s, res) == loop_top(search(s, res), h)

\* C11: from an empty query, a search committed with any text followed by a
\* search that is cancelled shows the row list of before the first search
\* (the store and the collapse set are not touched in between).
C11_SearchRoundTrip ==
    (pc = "run" /\ search_query = <<>>) =>
        \A q \in Short :
           AfterSearch(AfterSearch(Locals, Committed(q)), Cancelled).rows = rows

\* the query is empty, rows are shown, and a search for "a" would hide them
C11_Witness ==
    /\ pc = "run"
    /\ search_query = <<>>
    /\ Len(rows) >= 2
    /\ AfterSearch(Locals, Committed(<<"a">>)).rows = <<>>

\* C12: the search handler leaves cursor_pos = 0 and scroll_offset = 0; after
\* a commit the query is the committed text without its leading and trailing
\* blanks (empty for an empty commit), after escape it is empty.
C12_SearchEffects ==
    pc = "run" =>
        /\ \A q \in Typed :
              /\ search(Locals, Committed(q)).search_query = Trimmed(q)
              /\ search(Locals, Committed(q)).cursor_pos = 0
              /\ search(Locals, Committed(q)).scroll_offset = 0
        /\ search(Locals, Cancelled).search_query = <<>>
        /\ search(Locals, Cancelled).cursor_pos = 0
        /\ search(Locals, Cancelled).scroll_offset = 0

\* a query is in force and the cursor is below the first row, on a terminal
\* that has scrolled
C12_Witness ==
    /\ pc = "run"
    /\ search_query # <<>>
    /\ cursor_pos > 0
    /\ scroll_offset > 0

\* C13 as stated: the editor the search opens starts with the current query
\* in its buffer, so that enter pressed at once leaves the query as it is.
C13_SearchPrefilled ==
    pc = "run" =>
        /\ TextStart(search_prefill(Locals)).buf = search_query
        /\ AfterSearch(Locals, textbox_input(search_prefill(Locals), <<"ENTER">>)).search_query
              = search_query

\* the locals n are back at the tree view with the store, the workspace, the
\* collapse set, the query, the cursor and the scroll of the current state
Untouched(n) ==
    /\ loop_top(n, h).db = db
    /\ loop_top(n, h).current_ws_id = current_ws_id
    /\ loop_top(n, h).collapsed = collapsed
    /\ loop_top(n, h).search_query = search_query
    /\ loop_top(n, h).cursor_pos = cursor_pos
    /\ loop_top(n, h).scroll_offset = scroll_offset

\* what the picker returns on escape, and when "+ New workspace" is chosen
PickCancelled == [cancelled |-> TRUE, item |-> <<>>]
PickNew == [cancelled |-> FALSE, item |-> <<-1, <<"+">>>>]

\* escape in the modals of new task, new step, edit, the workspace picker and
\* the name of a new workspace leaves everything as it was
CancelIsNoOp ==
    /\ Untouched(new_task(Locals, Cancelled))
    /\ rows # <<>> => Untouched(new_step(Locals, Cancelled))
    /\ rows # <<>> => Untouched(edit(Locals, Cancelled))
    /\ PickCancelled \in PopupResults(Options(db), h)
    /\ Untouched(switch_workspace(Locals, PickCancelled, Cancelled))
    /\ PickNew \in PopupResults(Options(db), h)
    /\ Untouched(switch_workspace(Locals, PickNew, Cancelled))

\* C14 as stated: escape in any modal, the search editor included, leaves the
\* store, the workspace, the collapse set, the query, the cursor and the
\* scroll as they were.
C14_Original ==
    pc = "run" => (CancelIsNoOp /\ Untouched(search(Locals, Cancelled)))

\* C14 amended: escape in the modals of new task, new step, edit, the picker
\* and the new workspace's name leaves all of them as they were; escape in the
\* search editor leaves the store, the workspace and the collapse set as they
\* were, empties the query and sets cursor and scroll to 0.
C14_CancelEffects ==
    pc = "run" =>
        /\ CancelIsNoOp
        /\ search(Locals, Cancelled).db = db
        /\ search(Locals, Cancelled).current_ws_id = current_ws_id
        /\ search(Locals, Cancelled).collapsed = collapsed
        /\ search(Locals, Cancelled).search_query = <<>>
        /\ search(Locals, Cancelled).cursor_pos = 0
        /\ search(Locals, Cancelled).scroll_offset = 0

\* a modal is cancelled in the second workspace with a task collapsed, a
\* query in force and its row selected
C14_Witness ==
    /\ pc = "run"
    /\ rows # <<>>
    /\ collapsed # {}
    /\ search_query # <<>>
    /\ current_ws_id = 2

\* the locals after a is pressed and the editor returns the text t
AfterNewStep(t) == loop_top(new_step(Locals, Committed(t)), h)

\* the task the selected row belongs to
OwnerOfSelection ==
    IF Selected(Locals).type = "task" THEN Selected(Locals).id
    ELSE Selected(Locals).task_id

\* in the locals n the step the store created last is the one step added to
\* the current store, under the owner of the selection with the text t
\* trimmed, and the owner is not collapsed
CreatedUnderOwner(n, t) ==
    LET sid == db.step_seq + 1
    IN  /\ DOMAIN n.db.steps = DOMAIN db.steps \cup {sid}
        /\ sid \notin DOMAIN db.steps
        /\ n.db.steps[sid].task_id = OwnerOfSelection
        /\ n.db.steps[sid].text = Trimmed(t)
        /\ OwnerOfSelection \notin n.collapsed

\* the step created next has a step row in the row list of the locals n
NewStepShown(n) ==
    \E i \in 1..Len(n.rows) :
       n.rows[i].type = "step" /\ n.rows[i].id = db.step_seq + 1

\* the texts an editor can return that are not blank
Solid == {t \in Short : Trimmed(t) # <<>>}

\* C15 as stated: after a new step is committed with a text that is not
\* blank, the step is under the owner of the selection, the owner is not
\* collapsed and the step has a row in the next row list, whatever the
\* collapse set and the query.
C15_Original ==
    (pc = "run" /\ rows # <<>>) =>
        \A t \in Solid :
           LET n == AfterNewStep(t)
           IN  CreatedUnderOwner(n, t) /\ NewStepShown(n)

\* C15 amended: the step is under the owner of the selection and the owner is
\* not collapsed; the step has a row in the next row list if the query is
\* empty or occurs, case ignored, in the owner's name or in the new step's
\* text, and has none otherwise.
C15_NewStepVisible ==
    (pc = "run" /\ rows # <<>>) =>
        \A t \in Solid :
           LET n == AfterNewStep(t)
           IN  /\ CreatedUnderOwner(n, t)
               /\ NewStepShown(n) <=>
                     \/ search_query = <<>>
                     \/ OccursIn(search_query, db.tasks[OwnerOfSelection].name)
                     \/ OccursIn(search_query, Trimmed(t))

\* a step row is selected under a query its task's name does not match: a new
\* step "a" would be shown, a new step "B" would not
C15_Witness ==
    /\ pc = "run"
    /\ rows # <<>>
    /\ search_query # <<>>
    /\ Selected(Locals).type = "step"
    /\ ~OccursIn(search_query, db.tasks[OwnerOfSelection].name)
    /\ NewStepShown(AfterNewStep(<<"a">>))
    /\ ~NewStepShown(AfterNewStep(<<"B">>))

\* the locals after d is pressed
AfterDelete == loop_top(delete(Locals), h)

\* no row of rws is the row of task t or of one of its steps
NoRowOf(rws, t) ==
    \A i \in 1..Len(rws) :
       /\ rws[i].type = "task" => rws[i].id # t
       /\ rws[i].type = "step" => rws[i].task_id # t

\* C16: d on a task row removes the task and each of its steps from the
\* store and its id from the collapse set (collapsed or not), and leaves the
\* rest of the store; then no row and no step refers to the task.  d on a
\* step row removes that step and nothing else.
C16_DeleteEffects ==
    (pc = "run" /\ rows # <<>>) =>
        LET r == Selected(Locals)
            n == AfterDelete
        IN  IF r.type = "task"
            THEN /\ DOMAIN n.db.tasks = DOMAIN db.tasks \ {r.id}
                 /\ \A t \in DOMAIN n.db.tasks : n.db.tasks[t] = db.tasks[t]
                 /\ DOMAIN n.db.steps =
                       {x \in DOMAIN db.steps : db.steps[x].task_id # r.id}
                 /\ \A x \in DOMAIN n.db.steps : n.db.steps[x] = db.steps[x]
                 /\ n.collapsed = collapsed \ {r.id}
                 /\ NoRowOf(n.rows, r.id)
                 /\ n.db.workspaces = db.workspaces
            ELSE /\ n.db.tasks = db.tasks
                 /\ DOMAIN n.db.steps = DOMAIN db.steps \ {r.id}
                 /\ r.id \in DOMAIN db.steps
                 /\ \A x \in DOMAIN n.db.steps : n.db.steps[x] = db.steps[x]
                 /\ n.collapsed = collapsed
                 /\ n.db.workspaces = db.workspaces

\* a collapsed task with two steps is selected
C16_Witness ==
    /\ pc = "run"
    /\ rows # <<>>
    /\ Selected(Locals).type = "task"
    /\ Selected(Locals).id \in collapsed
    /\ Cardinality(StepsOf(Selected(Locals).id)) = 2

\* what the picker returns when the entry of workspace w is chosen
PickOf(w) == [cancelled |-> FALSE, item |-> <<w, db.workspaces[w].name>>]

\* C17: choosing an existing workspace in the picker makes it the active one,
\* empties the collapse set and sets cursor and scroll to 0; the next row list
\* holds rows of tasks of that workspace only, none of them collapsed.
C17_SwitchWorkspace ==
    pc = "run" =>
        \A w \in DOMAIN db.workspaces :
           LET n == switch_workspace(Locals, PickOf(w), Cancelled)
               rws == loop_top(n, h).rows
           IN  /\ PickOf(w) \in PopupResults(Options(db), h)
               /\ n.current_ws_id = w
               /\ n.collapsed = {}
               /\ n.cursor_pos = 0
               /\ n.scroll_offset = 0
               /\ n.db = db
               /\ loop_top(n, h).current_ws_id = w
               /\ loop_top(n, h).collapsed = {}
               /\ loop_top(n, h).cursor_pos = 0
               /\ \A i \in 1..Len(rws) :
                     /\ rws[i].type = "task" =>
                           (db.tasks[rws[i].id].workspace_id = w /\ ~rws[i].collapsed)
                     /\ rws[i].type = "step" =>
                           db.tasks[rws[i].task_id].workspace_id = w

\* two workspaces, the task shown is collapsed, and the other workspace has
\* no task
C17_Witness ==
    /\ pc = "run"
    /\ Cardinality(DOMAIN db.workspaces) = 2
    /\ rows # <<>>
    /\ collapsed # {}
    /\ \E w \in DOMAIN db.workspaces :
          loop_top(switch_workspace(Locals, PickOf(w), Cancelled), h).rows = <<>>

\* the texts whose trimmed form is the name of a workspace
Taken == {t \in Typed : \E w \in DOMAIN db.workspaces : db.workspaces[w].name = Trimmed(t)}

\* C18: "+ New workspace" committed with a name that exists creates nothing,
\* leaves the workspace, the collapse set, the cursor and the scroll as they
\* are and leaves a status message; the loop goes on at the tree view.  The
\* names of the workspaces are pairwise distinct.
C18_DuplicateWorkspace ==
    pc = "run" =>
        /\ \A v, w \in DOMAIN db.workspaces :
              db.workspaces[v].name = db.workspaces[w].name => v = w
        /\ \A t \in Taken :
              LET n == switch_workspace(Locals, PickNew, Committed(t))
              IN  /\ n.db = db
                  /\ n.current_ws_id = current_ws_id
                  /\ n.collapsed = collapsed
                  /\ n.cursor_pos = cursor_pos
                  /\ n.scroll_offset = scroll_offset
                  /\ n.search_query = search_query
                  /\ n.status_msg # ""
                  /\ Untouched(n)

\* a second workspace was created from the picker and a name typed can clash
\* with it, while a task is collapsed in the first
C18_Witness ==
    /\ pc = "run"
    /\ Cardinality(DOMAIN db.workspaces) = 2
    /\ current_ws_id = 1
    /\ collapsed # {}
    /\ <<" ", "a">> \in Taken

\* the texts that are empty or all blanks
Blank == {t \in Typed : Trimmed(t) = <<>>}

\* the locals n have the store, the collapse set and the workspace of the
\* current state
NothingCreated(n) ==
    /\ n.db = db
    /\ n.collapsed = collapsed
    /\ n.current_ws_id = current_ws_id

\* C19: an empty or all-blank text committed in the editor of new task, new
\* step, edit or the new workspace's name changes nothing: the store, the
\* collapse set and the active workspace are as they were.
C19_BlankIgnored ==
    pc = "run" =>
        \A b \in Blank :
           /\ NothingCreated(new_task(Locals, Committed(b)))
           /\ rows # <<>> => NothingCreated(new_step(Locals, Committed(b)))
           /\ rows # <<>> => NothingCreated(edit(Locals, Committed(b)))
           /\ NothingCreated(switch_workspace(Locals, PickNew, Committed(b)))

\* a step row is selected under a collapsible task: an edit, a new step, a
\* new task or a new workspace's name can be committed blank
C19_Witness ==
    /\ pc = "run"
    /\ rows # <<>>
    /\ Selected(Locals).type = "step"
    /\ Committed(<<" ">>) \in TextResults[<<>>]
    /\ Committed(<<>>) \in TextResults[Selected(Locals).text]

\* low to medium, medium to high, high to low
Advanced(p) ==
    CASE p = "low" -> "medium" [] p = "medium" -> "high" [] p = "high" -> "low"

\* C20: p on a step row changes the priority of that step alone, low to
\* medium, medium to high, high to low; on a task row or an empty row list it
\* changes nothing; every priority is low, medium or high.
C20_CyclePriority ==
    pc = "run" =>
        LET n == loop_top(cycle_priority(Locals), h)
        IN  /\ \A x \in DOMAIN db.steps : db.steps[x].priority \in Priorities
            /\ n.collapsed = collapsed
            /\ n.current_ws_id = current_ws_id
            /\ n.search_query = search_query
            /\ IF rows # <<>> /\ Selected(Locals).type = "step"
               THEN LET x == Selected(Locals).id
                    IN  /\ x \in DOMAIN db.steps
                        /\ n.db = [db EXCEPT !.steps[x].priority =
                                                 Advanced(db.steps[x].priority)]
                        /\ n.db.steps[x].priority \in Priorities
               ELSE n.db = db

\* a step that was cycled up to high is selected, next to a step that was not
C20_Witness ==
    /\ pc = "run"
    /\ rows # <<>>
    /\ Selected(Locals).type = "step"
    /\ Selected(Locals).priority = "high"
    /\ \E x \in DOMAIN db.steps : db.steps[x].priority = "medium"

\* C21: enter on a step row flips the done flag of that step alone, sets its
\* completion timestamp when it becomes done and clears it when it becomes
\* not done, and touches nothing else; in every state each step has a
\* completion timestamp exactly when it is done.
C21_DoneAndTimestamp ==
    pc = "run" =>
        /\ \A x \in DOMAIN db.steps :
              (db.steps[x].completed_at # "NULL") <=> (db.steps[x].done = 1)
        /\ (rows # <<>> /\ Selected(Locals).type = "step") =>
              LET x == Selected(Locals).id
                  n == activate(Locals)
              IN  /\ x \in DOMAIN db.steps
                  /\ DOMAIN n.db.steps = DOMAIN db.steps
                  /\ n.db.steps[x].done = 1 - db.steps[x].done
                  /\ (n.db.steps[x].completed_at # "NULL") <=> (db.steps[x].done = 0)
                  /\ n.db.steps[x].task_id = db.steps[x].task_id
                  /\ n.db.steps[x].text = db.steps[x].text
                  /\ n.db.steps[x].priority = db.steps[x].priority
                  /\ \A y \in DOMAIN db.steps \ {x} : n.db.steps[y] = db.steps[y]
                  /\ n.db.tasks = db.tasks
                  /\ n.db.workspaces = db.workspaces
                  /\ n.collapsed = collapsed

\* a step that was checked is selected, next to one that is not done
C21_Witness ==
    /\ pc = "run"
    /\ rows # <<>>
    /\ Selected(Locals).type = "step"
    /\ Selected(Locals).done = 1
    /\ \E y \in DOMAIN db.steps : db.steps[y].done = 0

\* C22 as stated: nothing but the quit key ends the loop; a failure the store
\* reports becomes a status message and the loop reads the next key.
C22_OnlyQuitEnds == pc \in {"run", "quit"}

\* C23: while a modal widget is active no key acts on the tree view: whatever
\* key the widget reads, the store, the workspace, the collapse set, the
\* cursor, the scroll offset, the query and the rows keep their values and the
\* loop is not left; control goes back to the handler only on the widget's
\* commit (enter) or cancel (escape).
C23_ModalExclusive ==
    [][pc = "modal" =>
          /\ UNCHANGED <<db, current_ws_id, collapsed, cursor_pos,
                         scroll_offset, search_query, rows>>
          /\ pc' \in {"modal", "return"}
          /\ pc' = "return" => /\ widget'.kind = "returned"
                               /\ widget'.key \in {"ENTER", "ESC"}
          /\ pc' = "modal" => widget'.kind = widget.kind]_vars

\* a widget is open over a tree with rows, has just read a key the tree view
\* binds (q quits, the delete key deletes, a adds a step, space activates, the
\* arrows move) and is still open
C23_Witness ==
    /\ pc = "modal"
    /\ rows # <<>>
    /\ widget.key \in {"q", "DC", "a", " ", "UP", "DOWN"}

\* C24: only the search action changes the query: navigation, activate, new
\* task, new step, edit, delete, the priority cycle, the workspace picker
\* with every outcome (cancel, an existing workspace, a new one, a name
\* already taken) and the top of the loop leave it as it was.
C24_QueryFrame ==
    pc = "run" =>
        /\ key_up(Locals).search_query = search_query
        /\ key_down(Locals).search_query = search_query
        /\ key_top(Locals).search_query = search_query
        /\ key_bottom(Locals).search_query = search_query
        /\ activate(Locals).search_query = search_query
        /\ delete(Locals).search_query = search_query
        /\ cycle_priority(Locals).search_query = search_query
        /\ \A text \in {Committed(t) : t \in Short} \cup {Cancelled} :
              /\ new_task(Locals, text).search_query = search_query
              /\ new_step(Locals, text).search_query = search_query
              /\ edit(Locals, text).search_query = search_query
              /\ switch_workspace(Locals, PickNew, text).search_query = search_query
        /\ \A picked \in PopupResults(Options(db), h) :
              switch_workspace(Locals, picked, Cancelled).search_query = search_query
        /\ loop_top(Locals, h).search_query = search_query

\* a query is set, a step is selected under it and a second workspace exists
C24_Witness ==
    /\ pc = "run"
    /\ search_query # <<>>
    /\ rows # <<>>
    /\ Selected(Locals).type = "step"
    /\ Cardinality(DOMAIN db.workspaces) = 2

\* C25 as stated: the s key on a task row moves the task to the next status
\* of active -> in_progress -> done; the rows of the tree are those of
\* active tasks, so the selected task becomes in_progress.
C25_StatusKey ==
    (pc = "run" /\ rows # <<>> /\ Selected(Locals).type = "task") =>
        /\ db.tasks[Selected(Locals).id].status = "active"
        /\ loop_top(unbound_key(Locals), h).db.tasks[Selected(Locals).id].status
              = "in_progress"

\* the function of (rows, cursor, scroll, visible_height) that C26 specifies
Specified(rws, cursor, scroll, visible) ==
    IF rws = <<>> THEN <<0, 0>>
    ELSE LET c == IF cursor < 0 THEN 0
                  ELSE IF cursor > Len(rws) - 1 THEN Len(rws) - 1 ELSE cursor
         IN  <<c, IF c < scroll THEN c
                  ELSE IF c >= scroll + visible THEN c - visible + 1
                  ELSE scroll>>

\* C26 as stated: for every visible height the reconciliation yields (0, 0) on
\* an empty row list, else the clamped cursor with scroll = cursor if
\* cursor < scroll, cursor - visible + 1 if cursor >= scroll + visible and the
\* old scroll otherwise.
C26_Original ==
    [][(pc = "call" /\ pc' = "return") =>
          <<cursor_pos', scroll_offset'>>
              = Specified(rows, cursor_pos, scroll_offset, Visible(h))]_vars

\* C26 amended: the same, for every visible height of at least 1.
C26_Reconcile ==
    [][(pc = "call" /\ pc' = "return" /\ Visible(h) >= 1) =>
          <<cursor_pos', scroll_offset'>>
              = Specified(rows, cursor_pos, scroll_offset, Visible(h))]_vars

\* reconciled, with the cursor strictly inside a window that has scrolled
C26_Witness ==
    /\ pc = "return"
    /\ rows # <<>>
    /\ scroll_offset > 0
    /\ scroll_offset < cursor_pos
    /\ cursor_pos < scroll_offset + Visible(h) - 1

\* the editor's buffer and cursor after one more key
EditorAfter(ch) ==
    <<TextStep(widget, ch).buf, TextStep(widget, ch).cursor>>

\* C27: in the editor the cursor starts at the length of the prefill and
\* stays within 0..len(buffer) whatever keys are read; backspace and left at
\* offset 0, forward-delete and right at the end change neither the buffer
\* nor the cursor.
C27_EditorCursor ==
    (pc = "modal" /\ widget.kind = "text") =>
        /\ 0 <= widget.cursor
        /\ widget.cursor <= Len(widget.buf)
        /\ widget.key = "none" =>
              (widget.buf \in Prefills /\ widget.cursor = Len(widget.buf))
        /\ widget.cursor = 0 =>
              /\ EditorAfter("BACKSPACE") = <<widget.buf, widget.cursor>>
              /\ EditorAfter("LEFT") = <<widget.buf, widget.cursor>>
        /\ widget.cursor = Len(widget.buf) =>
              /\ EditorAfter("DC") = <<widget.buf, widget.cursor>>
              /\ EditorAfter("RIGHT") = <<widget.buf, widget.cursor>>

\* left was the last key read and the cursor is at offset 0 of a full buffer
C27_Witness ==
    /\ pc = "modal"
    /\ widget.kind = "text"
    /\ widget.key = "LEFT"
    /\ widget.cursor = 0
    /\ Len(widget.buf) = MaxBuf

\* the selection stays within the items, up and down move it by one and stop
\* at the ends, and enter returns the item selected
PickerSelection ==
    LET n == Len(widget.items)
    IN  /\ 0 <= widget.sel
        /\ widget.sel <= n - 1
        /\ PopupStep(widget, "UP").sel
              = (IF widget.sel = 0 THEN 0 ELSE widget.sel - 1)
        /\ PopupStep(widget, "DOWN").sel
              = (IF widget.sel = n - 1 THEN n - 1 ELSE widget.sel + 1)
        /\ PopupStep(widget, "ENTER").kind = "returned"
        /\ ~PopupStep(widget, "ENTER").result.cancelled
        /\ \E i \in 1..n : /\ i = widget.sel + 1
                           /\ PopupStep(widget, "ENTER").result.item = widget.items[i]

\* the selection is inside the popup's window
PickerWindow ==
    /\ widget.scroll <= widget.sel
    /\ widget.sel <= widget.scroll + widget.inner_h - 1

\* C28 as stated: for every popup height, after any up/down keys
\* 0 <= sel <= len(items) - 1 without wraparound,
\* scroll <= sel <= scroll + inner_height - 1, and commit returns items[sel].
C28_Original ==
    (pc = "modal" /\ widget.kind = "popup") => (PickerSelection /\ PickerWindow)

\* C28 amended: the same, the bound on scroll for every popup height that
\* leaves at least one item line (inner_height >= 1).
C28_Picker ==
    (pc = "modal" /\ widget.kind = "popup") =>
        /\ PickerSelection
        /\ widget.inner_h >= 1 => PickerWindow

\* down was read on the way to the last item of a list longer than the
\* popup's window, which has scrolled
C28_Witness ==
    /\ pc = "modal"
    /\ widget.kind = "popup"
    /\ widget.key = "DOWN"
    /\ widget.inner_h >= 1
    /\ widget.inner_h < Len(widget.items)
    /\ widget.sel = Len(widget.items) - 1
    /\ widget.scroll > 0

\* C29: at every read of a key the collapse set holds only ids of tasks that
\* exist and belong to the active workspace, and every entry to a workspace,
\* an existing one picked or a new one created, leaves it empty.
C29_CollapseSet ==
    pc = "run" =>
        /\ \A t \in collapsed :
              /\ t \in DOMAIN db.tasks
              /\ db.tasks[t].workspace_id = current_ws_id
        /\ \A w \in DOMAIN db.workspaces :
              switch_workspace(Locals, PickOf(w), Cancelled).collapsed = {}
        /\ \A t \in Short :
              LET n == switch_workspace(Locals, PickNew, Committed(t))
              IN  n.current_ws_id # current_ws_id => n.collapsed = {}

\* the only task was deleted and the second workspace is the active one
C29_Witness ==
    /\ pc = "run"
    /\ db.task_seq = MaxTaskId
    /\ DOMAIN db.tasks = {}
    /\ current_ws_id = 2
    /\ collapsed = {}

\* C30: every row list build_tree returns is well-formed: if it has rows the
\* first is a task row, no task id is on two task rows and no step id on two
\* step rows, and the nearest task row above a step row is the row of the
\* step's task, which is the task OwningTask resolves from the step row.
C30_WellFormed ==
    pc = "return" =>
        /\ rows # <<>> => rows[1].type = "task"
        /\ \A i, j \in RowIdx :
              (i # j /\ rows[i].type = rows[j].type) => rows[i].id # rows[j].id
        /\ \A i \in RowIdx :
              IsStepRow(i) =>
                 \E j \in 1..(i - 1) :
                    /\ IsTaskRow(j)
                    /\ \A k \in (j + 1)..(i - 1) : IsStepRow(k)
                    /\ rows[j].id = OwningTask(rows[i])
                    /\ rows[j].id = db.steps[rows[i].id].task_id

\* two tasks are shown, each above a step of its own
C30_Witness ==
    /\ pc = "return"
    /\ Len(rows) = 4
    /\ IsTaskRow(1) /\ IsStepRow(2) /\ IsTaskRow(3) /\ IsStepRow(4)
    /\ rows[2].task_id # rows[4].task_id

====
